---- MODULE Spec2Model ----
(***************************************************************************)
(* A model of unsegen's linear layout engine (src/widget/layouts.rs):      *)
(* the allocator layout_linearly, run one loop iteration per step, and the *)
(* space_demand aggregation of HorizontalLayout and VerticalLayout.        *)
(* Extents are non-negative integers (PositiveAxisDiff); a subtraction     *)
(* whose result is negative makes try_into_positive().unwrap() panic.      *)
(* debug_assert! is modelled as in a debug build (the build the tests run):*)
(* a false assertion panics.                                               *)
(***************************************************************************)
EXTENDS Integers, Sequences, FiniteSets, TLC

\* ---------------------------------------------------------------- bounds
\* Longest demand list handed to layout_linearly.
MaxWidgets == 3
\* Largest minimum / maximum of a demand.
MaxExtent == 2
\* Largest available extent.
MaxSpace == 7
\* Largest separator extent.
MaxSeparator == 2

\* ------------------------------------------------------- Option, Demand
\* Option<T>: None is the empty sequence, Some(x) the one-element sequence.
None == <<>>
Some(x) == <<x>>

\* Demand<T> { min, max: Option }, with the three constructors the code uses.
exact(n) == [min |-> n, max |-> Some(n)]
from_to(a, b) == [min |-> a, max |-> Some(b)]
at_least(n) == [min |-> n, max |-> None]

\* Demand's invariant: max >= min whenever max is present.
WellFormed(d) == d.max = None \/ d.max[1] >= d.min

\* Every well-formed demand within the bound.
Demands ==
    {d \in [min : 0..MaxExtent, max : {None} \cup {Some(m) : m \in 0..MaxExtent}] :
        WellFormed(d)}

RECURSIVE SeqsUpTo(_, _)
SeqsUpTo(S, n) ==
    IF n = 0 THEN {<<>>}
    ELSE LET shorter == SeqsUpTo(S, n - 1)
         IN  shorter \cup {Append(s, x) : s \in {t \in shorter : Len(t) = n - 1}, x \in S}

Min2(a, b) == IF a <= b THEN a ELSE b
Max2(a, b) == IF a >= b THEN a ELSE b

RECURSIVE SumSeq(_)
SumSeq(s) == IF s = <<>> THEN 0 ELSE s[1] + SumSeq(Tail(s))

VARIABLES
    \* layout_linearly
    pc,                   \* position in layout_linearly
    space,                \* the available_space argument as passed by the caller
    separator_width,      \* the separator_width argument
    demands,              \* the demands argument
    available_space,      \* the mutable local available_space
    assigned_spaces,      \* the result vector
    unfinished,           \* Vec<usize> of indices (1-based here)
    i,                    \* index of the minimum pass (1-based)
    separators_deducted,  \* how many separators the minimum pass has deducted
    iterations,           \* how many iterations of the equalization loop have begun
    panic,                \* "" or the message of the panic that ended the call
    \* HorizontalLayout::space_demand and VerticalLayout::space_demand
    sd_pc,                \* position in space_demand
    layout,               \* "horizontal" or "vertical": whose space_demand runs
    separating_style,     \* the layout's separating_style
    widgets,              \* the Demand2D each widget reports, in order
    total_x,              \* the local total_x
    total_y,              \* the local total_y
    n_elements,           \* the local n_elements
    result,               \* the Demand2D returned, None before the return
    \* HorizontalLayout::draw and VerticalLayout::draw (draw_linearly)
    draw_pc,              \* position in draw_linearly
    window,               \* the window argument: a rectangle of the screen
    separator_length,     \* the local separator_length
    rest_window,          \* the local rest_window
    child,                \* the enumerate() index of the loop, 1-based here
    regions,              \* the windows handed out so far, in order
    cells,                \* the content of every cell of the window
    draw_panic,           \* "" or the message of the panic that ended the call
    \* FileLineStorage
    file_line_storage,    \* the object: the file behind reader, line_seek_positions
    get_line,             \* the call of get_line: position, index, buffer, result
    \* LineStorage::view on a MemoryLineStorage
    memory_line_storage,  \* the object: lines
    line_storage_iterator,\* the call of view and the LineStorageIterator it returns
    \* LineEdit
    line_edit,            \* the object: text, cursor_pos
    operation_result      \* the last operation on line_edit and what it returned

layout_vars == <<pc, space, separator_width, demands, available_space, assigned_spaces,
                 unfinished, i, separators_deducted, iterations, panic>>

demand_vars == <<sd_pc, layout, separating_style, widgets, total_x, total_y,
                 n_elements, result>>

draw_vars == <<draw_pc, window, separator_length, rest_window, child, regions, cells,
               draw_panic>>

file_vars == <<file_line_storage, get_line>>

view_vars == <<memory_line_storage, line_storage_iterator>>

edit_vars == <<line_edit, operation_result>>

other_vars == <<file_vars, view_vars, edit_vars>>

vars == <<layout_vars, demand_vars, draw_vars, other_vars>>

\* Scaffolding, not code: the variables of layout_linearly while another
\* operation is examined.
LayoutIdle ==
    /\ pc = "idle"
    /\ space = 0
    /\ separator_width = 0
    /\ demands = <<>>
    /\ available_space = 0
    /\ assigned_spaces = <<>>
    /\ unfinished = <<>>
    /\ i = 1
    /\ separators_deducted = 0
    /\ iterations = 0
    /\ panic = ""

\* Scaffolding, not code: the variables of space_demand while another
\* operation is examined.
SpaceDemandIdle ==
    /\ sd_pc = "idle"
    /\ layout = "horizontal"
    /\ separating_style = [kind |-> "None", cluster_width |-> 0]
    /\ widgets = <<>>
    /\ total_x = exact(0)
    /\ total_y = exact(0)
    /\ n_elements = 0
    /\ result = None

\* Scaffolding, not code: the variables of draw while another operation is
\* examined.
DrawIdle ==
    /\ draw_pc = "idle"
    /\ window = [x |-> 0, y |-> 0, width |-> 0, height |-> 0]
    /\ separator_length = 0
    /\ rest_window = window
    /\ child = 1
    /\ regions = <<>>
    /\ cells = <<>>
    /\ draw_panic = ""

\* Scaffolding, not code: the variables of FileLineStorage while another
\* operation is examined.
FileIdle ==
    /\ file_line_storage = [content |-> <<>>, line_seek_positions |-> <<0>>]
    /\ get_line = [pc |-> "idle", index |-> 0, buffer |-> <<>>, result |-> None]

\* Scaffolding, not code: the variables of LineStorage::view while another
\* operation is examined.
ViewIdle ==
    /\ memory_line_storage = [lines |-> <<>>]
    /\ line_storage_iterator =
           [pc |-> "idle", range_argument |-> [start |-> <<"Unbound">>, end |-> <<"Unbound">>],
            start |-> 0, end |-> 0, i |-> 0, range |-> [start |-> 0, end |-> 0],
            yielded |-> <<>>, nexts |-> 0, next_backs |-> 0]

\* Scaffolding, not code: the variables of LineEdit while another operation is
\* examined.
EditIdle ==
    /\ line_edit = [text |-> <<>>, cursor_pos |-> 0]
    /\ operation_result = [operation |-> "idle", result |-> "()", before |-> line_edit]

OtherIdle == FileIdle /\ ViewIdle /\ EditIdle

\* ------------------------------------------------- layout_linearly: setup
\* Mutant: the vector is only reserved (Vec::with_capacity), not filled.
new_assigned_spaces_empty(n) == <<>>

\* vec![PositiveAxisDiff::new(0).unwrap(); demands.len()]
new_assigned_spaces(n) == [k \in 1..n |-> 0]

LayoutInit ==
    /\ space \in 0..MaxSpace
    /\ separator_width \in 0..MaxSeparator
    /\ demands \in SeqsUpTo(Demands, MaxWidgets)
    /\ available_space = space
    /\ assigned_spaces = new_assigned_spaces(Len(demands))
    /\ unfinished = <<>>
    /\ i = 1
    /\ separators_deducted = 0
    /\ iterations = 0
    /\ pc = "min_pass"
    /\ panic = ""
    /\ SpaceDemandIdle
    /\ DrawIdle
    /\ OtherIdle

\* ------------------------------------------ layout_linearly: minimum pass
\* Mutant: every demand is flagged unfinished, exact ones included.
is_unfinished_always(demand) == TRUE

\* A demand is unfinished when it has no maximum or a maximum other than its minimum.
is_unfinished(demand) ==
    IF demand.max # None THEN demand.max[1] # demand.min ELSE TRUE

\* Mutant: an off-by-one comparison; a minimum that fits exactly is not granted.
min_assigned_space_strict(available, demand) ==
    IF demand.min < available THEN demand.min ELSE 0

\* let assigned_space = min(available_space, demand.min);
min_assigned_space(available, demand) == Min2(available, demand.min)

\* Mutant: the last element is charged a separator like the others.
following_separator_always(k, n, separator) == separator

\* The separator that follows element k of n: none after the last element.
following_separator(k, n, separator) == IF k = n THEN 0 ELSE separator

\* if available_space <= separator_width { return assigned_spaces; }
min_pass_returns(available, separator) == available <= separator

\* Mutant: the separator is not paid for.
deduct_separator_forgotten(available, separator) == available

\* available_space = (available_space - separator_width).try_into_positive().unwrap();
deduct_separator(available, separator) == available - separator

\* One iteration of `for (i, demand) in demands.iter().enumerate()`.
MinPassIteration ==
    /\ pc = "min_pass"
    /\ i <= Len(demands)
    /\ LET demand == demands[i]
           assigned_space == min_assigned_space(available_space, demand)
           after_assign == available_space - assigned_space
           separator == following_separator(i, Len(demands), separator_width)
           after_separator == deduct_separator(after_assign, separator)
       IN  IF after_assign < 0
           THEN /\ pc' = "panicked"
                /\ panic' = "unwrap: negative available_space"
                /\ UNCHANGED <<available_space, assigned_spaces, unfinished, i,
                               separators_deducted>>
           ELSE /\ assigned_spaces' = [assigned_spaces EXCEPT ![i] = assigned_space]
                /\ unfinished' = IF is_unfinished(demand)
                                 THEN Append(unfinished, i) ELSE unfinished
                /\ IF min_pass_returns(after_assign, separator)
                   THEN /\ pc' = "returned"
                        /\ available_space' = after_assign
                        /\ UNCHANGED <<i, separators_deducted, panic>>
                   ELSE IF after_separator < 0
                   THEN /\ pc' = "panicked"
                        /\ panic' = "unwrap: negative available_space"
                        /\ available_space' = after_assign
                        /\ UNCHANGED <<i, separators_deducted>>
                   ELSE /\ available_space' = after_separator
                        /\ i' = i + 1
                        /\ separators_deducted' =
                               separators_deducted + (IF i = Len(demands) THEN 0 ELSE 1)
                        /\ UNCHANGED <<pc, panic>>
    /\ UNCHANGED <<space, separator_width, demands, iterations>>
    /\ UNCHANGED demand_vars
    /\ UNCHANGED draw_vars
    /\ UNCHANGED other_vars

\* The for loop is exhausted: control reaches the equalization loop.
MinPassExit ==
    /\ pc = "min_pass"
    /\ i > Len(demands)
    /\ pc' = "equalize"
    /\ UNCHANGED <<space, separator_width, demands, available_space, assigned_spaces,
                   unfinished, i, separators_deducted, iterations, panic>>
    /\ UNCHANGED demand_vars
    /\ UNCHANGED draw_vars
    /\ UNCHANGED other_vars

\* ---------------------------------------- layout_linearly: equalization
\* unfinished.sort_by(|&i, &j| assigned_spaces[i].cmp(&assigned_spaces[j])):
\* a stable sort, so x goes behind every element whose key is not larger.
sort_insert(sorted, x, assigned) ==
    LET pos == Cardinality({j \in 1..Len(sorted) : assigned[sorted[j]] <= assigned[x]})
    IN  SubSeq(sorted, 1, pos) \o <<x>> \o SubSeq(sorted, pos + 1, Len(sorted))

RECURSIVE sort_from(_, _, _, _)
sort_from(done, todo, k, assigned) ==
    IF k > Len(todo) THEN done
    ELSE sort_from(sort_insert(done, todo[k], assigned), todo, k + 1, assigned)

sort_by_assigned(indices, assigned) == sort_from(<<>>, indices, 1, assigned)

\* if planned_to_spend + increase_cost > available_space { break; }
ladder_breaks(planned_to_spend, increase_cost, available) ==
    planned_to_spend + increase_cost > available

\* The planning loop "Plan to equalize ladder as far as possible", from the
\* k-th element of the sorted unfinished list on (enumerate's index is k - 1).
RECURSIVE ladder(_, _, _, _, _)
ladder(sorted, assigned, available, k, plan) ==
    IF k > Len(sorted) THEN plan
    ELSE LET new_space == assigned[sorted[k]]
             diff == new_space - plan.planned_increased_space
             increase_cost == diff * (k - 1)
         IN  IF diff < 0
             THEN [plan EXCEPT !.panic = "Sorted, so >= 0"]
             ELSE IF ladder_breaks(plan.planned_to_spend, increase_cost, available)
             THEN plan
             ELSE ladder(sorted, assigned, available, k + 1,
                         [num_equalized |-> k,
                          planned_to_spend |-> plan.planned_to_spend + increase_cost,
                          planned_increased_space |-> new_space,
                          panic |-> ""])

ladder_plan(sorted, assigned, available) ==
    ladder(sorted, assigned, available, 1,
           [num_equalized |-> 0, planned_to_spend |-> 0,
            planned_increased_space |-> 0, panic |-> ""])

\* let per_widget_increase = left_to_spend / num_equalized;
per_widget_increase(left_to_spend, num_equalized) == left_to_spend \div num_equalized

\* Whether the element is pushed to still_unfinished: it has no maximum, or
\* its maximum is above the planned level.
stays_unfinished(demand, planned_increased_space) ==
    IF demand.max # None THEN demand.max[1] > planned_increased_space ELSE TRUE

positive_or_zero(d) == IF d > 0 THEN d ELSE 0

\* Mutant: the element is raised to the planned level whatever its maximum.
increase_uncapped(demand, assigned_space, planned_increased_space) ==
    positive_or_zero(planned_increased_space - assigned_space)

\* Mutant: an element without a maximum is never raised.
increase_bounded_only(demand, assigned_space, planned_increased_space) ==
    IF demand.max # None
    THEN IF demand.max[1] > planned_increased_space
         THEN positive_or_zero(planned_increased_space - assigned_space)
         ELSE positive_or_zero(demand.max[1] - assigned_space)
    ELSE 0

\* The increase of one unfinished element in "Actually distribute".
increase(demand, assigned_space, planned_increased_space) ==
    IF demand.max # None
    THEN IF demand.max[1] > planned_increased_space
         THEN positive_or_zero(planned_increased_space - assigned_space)
         ELSE positive_or_zero(demand.max[1] - assigned_space)
    ELSE positive_or_zero(planned_increased_space - assigned_space)

\* `for unfinished_index in unfinished { ... }`, from the k-th element on.
RECURSIVE distribute(_, _, _, _, _)
distribute(sorted, dems, planned, k, st) ==
    IF k > Len(sorted) \/ st.panic # "" THEN st
    ELSE LET idx == sorted[k]
             inc == increase(dems[idx], st.assigned_spaces[idx], planned)
             left == st.available_space - inc
         IN  IF left < 0
             THEN [st EXCEPT !.panic = "unwrap: negative available_space"]
             ELSE distribute(sorted, dems, planned, k + 1,
                    [assigned_spaces |->
                         [st.assigned_spaces EXCEPT ![idx] = st.assigned_spaces[idx] + inc],
                     available_space |-> left,
                     still_unfinished |->
                         IF stays_unfinished(dems[idx], planned)
                         THEN Append(st.still_unfinished, idx)
                         ELSE st.still_unfinished,
                     panic |-> ""])

\* Mutant: the loop is left after the first plan, whatever it says.
equalize_breaks_always(min_space, planned_increased_space) == TRUE

\* if min_space == planned_increased_space { break; }
equalize_breaks(min_space, planned_increased_space) == min_space = planned_increased_space

Panics(message) ==
    /\ pc' = "panicked"
    /\ panic' = message

\* One iteration of the `loop` that equalizes the remaining space.
EqualizeIteration ==
    /\ pc = "equalize"
    /\ LET sorted == sort_by_assigned(unfinished, assigned_spaces)
           plan == ladder_plan(sorted, assigned_spaces, available_space)
           left_to_spend == available_space - plan.planned_to_spend
           planned == plan.planned_increased_space
                          + per_widget_increase(left_to_spend, plan.num_equalized)
           min_space == assigned_spaces[sorted[1]]
           st == distribute(sorted, demands, planned, 1,
                            [assigned_spaces |-> assigned_spaces,
                             available_space |-> available_space,
                             still_unfinished |-> <<>>, panic |-> ""])
       IN  IF sorted = <<>>
           THEN /\ pc' = "returned"
                /\ unfinished' = sorted
                /\ UNCHANGED <<available_space, assigned_spaces, panic>>
           ELSE IF plan.panic # ""
           THEN /\ Panics(plan.panic)
                /\ unfinished' = sorted
                /\ UNCHANGED <<available_space, assigned_spaces>>
           ELSE IF left_to_spend < 0
           THEN /\ Panics("unwrap: negative left_to_spend")
                /\ unfinished' = sorted
                /\ UNCHANGED <<available_space, assigned_spaces>>
           ELSE IF plan.num_equalized = 0
           THEN /\ Panics("attempt to divide by zero")
                /\ unfinished' = sorted
                /\ UNCHANGED <<available_space, assigned_spaces>>
           ELSE IF equalize_breaks(min_space, planned)
           THEN /\ pc' = "remainder"
                /\ unfinished' = sorted
                /\ UNCHANGED <<available_space, assigned_spaces, panic>>
           ELSE IF ~(min_space < planned)
           THEN /\ Panics("Invalid planned increase")
                /\ unfinished' = sorted
                /\ UNCHANGED <<available_space, assigned_spaces>>
           ELSE /\ assigned_spaces' = st.assigned_spaces
                /\ available_space' = st.available_space
                /\ IF st.panic # ""
                   THEN /\ Panics(st.panic)
                        /\ unfinished' = sorted
                   ELSE /\ unfinished' = st.still_unfinished
                        /\ UNCHANGED <<pc, panic>>
    /\ iterations' = iterations + 1
    /\ UNCHANGED <<space, separator_width, demands, i, separators_deducted>>
    /\ UNCHANGED demand_vars
    /\ UNCHANGED draw_vars
    /\ UNCHANGED other_vars

\* Mutant: the whole leftover goes to the first unfinished element.
remainder_greedy(order, dems, k, st) ==
    IF order = <<>> THEN st
    ELSE [st EXCEPT !.assigned_spaces[order[1]] = @ + st.available_space,
                    !.available_space = 0]

\* --------------------------------------- layout_linearly: remainder pass
\* `for unfinished_index in unfinished { ... }` after the loop, from the k-th
\* element on: one unit each until available_space is 0.
RECURSIVE remainder(_, _, _, _)
remainder(order, dems, k, st) ==
    IF k > Len(order) \/ st.available_space = 0 \/ st.panic # "" THEN st
    ELSE LET idx == order[k]
             demand == dems[idx]
         IN  IF ~(demand.max = None \/ demand.max[1] > st.assigned_spaces[idx])
             THEN [st EXCEPT !.panic = "Invalid demand for unfinished"]
             ELSE IF st.available_space - 1 < 0
             THEN [st EXCEPT !.panic = "unwrap: negative available_space"]
             ELSE remainder(order, dems, k + 1,
                    [assigned_spaces |->
                         [st.assigned_spaces EXCEPT ![idx] = st.assigned_spaces[idx] + 1],
                     available_space |-> st.available_space - 1,
                     panic |-> ""])

\* The remainder loop and the final debug_assert.
RemainderPass ==
    /\ pc = "remainder"
    /\ LET st == remainder(unfinished, demands, 1,
                           [assigned_spaces |-> assigned_spaces,
                            available_space |-> available_space, panic |-> ""])
       IN  /\ assigned_spaces' = st.assigned_spaces
           /\ available_space' = st.available_space
           /\ IF st.panic # ""
              THEN Panics(st.panic)
              ELSE IF st.available_space # 0
              THEN Panics("Not all space distributed")
              ELSE /\ pc' = "returned"
                   /\ UNCHANGED panic
    /\ UNCHANGED <<space, separator_width, demands, unfinished, i, separators_deducted,
                   iterations>>
    /\ UNCHANGED demand_vars
    /\ UNCHANGED draw_vars
    /\ UNCHANGED other_vars

LayoutNext ==
    \/ MinPassIteration
    \/ MinPassExit
    \/ EqualizeIteration
    \/ RemainderPass

SpecLayout == LayoutInit /\ [][LayoutNext]_vars

\* ------------------------------------------------ properties of the result
Returned == pc = "returned"

Indices == 1..Len(demands)

\* Element k is below its maximum, or has none.
BelowMax(k) == demands[k].max = None \/ assigned_spaces[k] < demands[k].max[1]

\* Element k received more than its minimum.
AboveMin(k) == assigned_spaces[k] > demands[k].min

AbsDiff(a, b) == IF a >= b THEN a - b ELSE b - a

\* The number of elements up to and including the last one with a nonzero extent.
count_placed ==
    LET nonzero == {k \in Indices : assigned_spaces[k] # 0}
    IN  IF nonzero = {} THEN 0 ELSE CHOOSE k \in nonzero : \A j \in nonzero : j <= k

\* Sum of the minimums of elements 1..k.
RECURSIVE SumMin(_)
SumMin(k) == IF k = 0 THEN 0 ELSE demands[k].min + SumMin(k - 1)

\* C1: every returned extent is at most its demand's maximum, when there is one.
C1_MaxRespected ==
    Returned =>
        \A k \in Indices :
            demands[k].max # None => assigned_spaces[k] <= demands[k].max[1]

\* An element was raised from its minimum up to its maximum while another one,
\* without a maximum, was raised beyond that level.
C1_Witness ==
    /\ Returned
    /\ \E k, j \in Indices :
        /\ demands[k].max # None
        /\ demands[k].max[1] > demands[k].min
        /\ assigned_spaces[k] = demands[k].max[1]
        /\ demands[j].max = None
        /\ assigned_spaces[j] > assigned_spaces[k]
        /\ AboveMin(j)

\* C2: the returned extents plus one separator between each two placed elements
\* fit into the available extent.
C2_WithinAvailable ==
    Returned =>
        SumSeq(assigned_spaces) + separator_width * Max2(0, count_placed - 1) <= space

\* Three elements are placed with two nonzero separators and fill the space exactly.
C2_Witness ==
    /\ Returned
    /\ separator_width > 0
    /\ count_placed = 3
    /\ SumSeq(assigned_spaces) + separator_width * 2 = space

\* C3: conservation; if some element ends below its maximum, the extents plus the
\* separators deducted by the minimum pass use up the available extent exactly.
C3_Conservation ==
    (Returned /\ \E k \in Indices : BelowMax(k)) =>
        SumSeq(assigned_spaces) + separator_width * separators_deducted = space

\* C4: an element whose minimum fits, together with the minimums before it and
\* the separators between them, receives at least its minimum.
C4_MinimumRespected ==
    Returned =>
        \A k \in Indices :
            SumMin(k) + separator_width * (k - 1) <= space =>
                assigned_spaces[k] >= demands[k].min

\* The minimums of elements 1..k and their separators fit exactly, k is not the
\* first element, and it has a nonzero minimum.
C4_Witness ==
    /\ Returned
    /\ separator_width > 0
    /\ \E k \in Indices :
        /\ k >= 2
        /\ demands[k].min > 0
        /\ SumMin(k) + separator_width * (k - 1) = space
        /\ assigned_spaces[k] = demands[k].min

\* C5 as stated: the extents of any two elements below their maximum differ by
\* at most 1.
C5_FairnessAmongUncapped ==
    Returned =>
        \A j, k \in Indices :
            (BelowMax(j) /\ BelowMax(k)) =>
                AbsDiff(assigned_spaces[j], assigned_spaces[k]) <= 1

\* C5 amended: the extents of any two elements that are below their maximum and
\* were raised above their minimum differ by at most 1.
C5_FairnessAmongRaised ==
    Returned =>
        \A j, k \in Indices :
            (BelowMax(j) /\ BelowMax(k) /\ AboveMin(j) /\ AboveMin(k)) =>
                AbsDiff(assigned_spaces[j], assigned_spaces[k]) <= 1

\* Two raised elements below their maximum with different minimums end one unit
\* apart, next to a third element that is left at its minimum.
C5_Witness ==
    /\ Returned
    /\ \E j, k, m \in Indices :
        /\ BelowMax(j) /\ BelowMax(k) /\ BelowMax(m)
        /\ AboveMin(j) /\ AboveMin(k) /\ ~AboveMin(m)
        /\ demands[j].min # demands[k].min
        /\ assigned_spaces[j] = assigned_spaces[k] + 1

\* C6: no call panics; no extent goes negative, num_equalized is never 0 at the
\* division, and the three assertions hold.
C6_NoPanic == pc # "panicked"

\* The remainder pass is about to hand out leftover units to several elements.
C6_Witness ==
    /\ pc = "remainder"
    /\ available_space >= 2
    /\ Len(unfinished) = 3
    /\ \E k \in Indices : AboveMin(k)

\* The least extent among the unfinished elements.
min_unfinished(indices, assigned) ==
    CHOOSE m \in {assigned[indices[k]] : k \in 1..Len(indices)} :
        \A k \in 1..Len(indices) : m <= assigned[indices[k]]

\* C7: every iteration of the equalization loop that does not leave the loop
\* removes an unfinished element or raises the least extent among the unfinished
\* ones, and hands out at least one unit of the available space, so the loop
\* cannot go round forever.
C7_LoopProgress ==
    [][(pc = "equalize" /\ pc' = "equalize") =>
        /\ available_space' < available_space
        /\ \/ Len(unfinished') < Len(unfinished)
           \/ min_unfinished(unfinished', assigned_spaces')
                  > min_unfinished(unfinished, assigned_spaces)]_vars

\* The loop has raised an element, finished another one, and goes round again.
C7_Witness ==
    /\ pc = "equalize"
    /\ iterations >= 1
    /\ unfinished # <<>>
    /\ available_space > 0
    /\ \E k \in Indices : AboveMin(k) /\ BelowMax(k)
    /\ \E k \in Indices : AboveMin(k) /\ ~BelowMax(k)

\* C8: the result has one extent per demand on every return path, and a call
\* with no demands returns the empty result.
C8_OneExtentPerDemand ==
    /\ Returned => DOMAIN assigned_spaces = DOMAIN demands
    /\ (demands = <<>> /\ pc \notin {"min_pass", "equalize"}) =>
           (Returned /\ assigned_spaces = <<>>)

\* An early return of the minimum pass that leaves later elements untouched.
C8_Witness ==
    /\ Returned
    /\ i < Len(demands)
    /\ Len(assigned_spaces) = 3
    /\ assigned_spaces[1] > 0

\* The position of element k in the list `order`.
PositionOf(order, k) == CHOOSE p \in 1..Len(order) : order[p] = k

InList(order, k) == \E p \in 1..Len(order) : order[p] = k

\* C14 as stated: the remainder pass gives one unit each to the unfinished
\* elements with the lowest indices, as many as there are units left.
C14_RemainderInIndexOrder ==
    [][(pc = "remainder" /\ pc' = "returned") =>
        \A k \in Indices :
            assigned_spaces'[k] = assigned_spaces[k] +
                (IF /\ InList(unfinished, k)
                    /\ Cardinality({j \in Indices : InList(unfinished, j) /\ j < k})
                           < available_space
                 THEN 1 ELSE 0)]_vars

\* C14 amended: the remainder pass gives one unit each to the first elements of
\* the unfinished list as the last sort left it, as many as there are units left,
\* and leaves no unit over.
C14_RemainderInListOrder ==
    [][(pc = "remainder" /\ pc' = "returned") =>
        /\ available_space' = 0
        /\ available_space <= Len(unfinished)
        /\ \A k \in Indices :
            assigned_spaces'[k] = assigned_spaces[k] +
                (IF /\ InList(unfinished, k)
                    /\ PositionOf(unfinished, k) <= available_space
                 THEN 1 ELSE 0)]_vars

\* The remainder pass has given a unit to an element while an unfinished element
\* with a lower index, raised to the same level before, got none.
C14_Witness ==
    /\ Returned
    /\ available_space = 0
    /\ \E j, k \in Indices :
        /\ j < k
        /\ demands[j].max = None /\ demands[k].max = None
        /\ AboveMin(j) /\ AboveMin(k)
        /\ assigned_spaces[k] = assigned_spaces[j] + 1

\* C15: an element raised above its minimum is at most one unit larger than any
\* element that is still below its maximum.
C15_MaxMinFair ==
    Returned =>
        \A j, k \in Indices :
            (AboveMin(j) /\ BelowMax(k)) => assigned_spaces[j] <= assigned_spaces[k] + 1

\* A raised element ends one unit above an element that stayed at its minimum
\* although it could still grow.
C15_Witness ==
    /\ Returned
    /\ \E j, k \in Indices :
        /\ AboveMin(j)
        /\ BelowMax(k) /\ ~AboveMin(k)
        /\ assigned_spaces[j] = assigned_spaces[k] + 1

\* Sum of the maximums of elements 1..k (all of them bounded).
RECURSIVE SumMax(_)
SumMax(k) == IF k = 0 THEN 0 ELSE demands[k].max[1] + SumMax(k - 1)

\* C16: when all minimums and the n - 1 separators fit, the extents and the
\* separators use the available extent up, or every element is at its maximum.
C16_FillsUpToMaximums ==
    LET n == Len(demands)
        used == SumSeq(assigned_spaces) + separator_width * (n - 1)
    IN  (Returned /\ SumMin(n) + separator_width * (n - 1) <= space) =>
            IF \E k \in Indices : demands[k].max = None
            THEN used = space
            ELSE used = Min2(space, SumMax(n) + separator_width * (n - 1))

\* Three bounded elements, all raised to their maximums with space to spare, and
\* nonzero separators.
C16_Witness ==
    /\ Returned
    /\ Len(demands) = 3
    /\ separator_width > 0
    /\ \A k \in Indices : demands[k].max # None
    /\ SumMax(3) + separator_width * 2 < space
    /\ \E k \in Indices : AboveMin(k)

\* C17: if an element receives less than its minimum, every later element
\* receives 0 and no element receives more than its minimum.
C17_ShortCircuit ==
    Returned =>
        \A k \in Indices :
            assigned_spaces[k] < demands[k].min =>
                /\ \A j \in Indices : j > k => assigned_spaces[j] = 0
                /\ \A j \in Indices : assigned_spaces[j] <= demands[j].min

\* An element got a part of its minimum and the next one, which wants space
\* too, got nothing.
C17_Witness ==
    /\ Returned
    /\ \E k \in Indices :
        /\ k < Len(demands)
        /\ 0 < assigned_spaces[k]
        /\ assigned_spaces[k] < demands[k].min
        /\ demands[k + 1].min > 0
        /\ assigned_spaces[k + 1] = 0


\* ------------------------------------------------ Demand addition and max
\* Demand + Demand: the minimums add; the maximums add, and the sum has no
\* maximum when either operand has none.
DemandAdd(a, b) ==
    [min |-> a.min + b.min,
     max |-> IF a.max # None /\ b.max # None THEN Some(a.max[1] + b.max[1]) ELSE None]

\* Demand::max: the larger minimum; the larger maximum, and no maximum when
\* either operand has none.
DemandMax(a, b) ==
    [min |-> Max2(a.min, b.min),
     max |-> IF a.max # None /\ b.max # None THEN Some(Max2(a.max[1], b.max[1])) ELSE None]

\* ------------------------------------------------------------ space_demand
\* Most widgets handed to a layout.
MaxChildren == 2

\* The demands a widget reports along one axis.
ChildDemands ==
    {exact(1), exact(MaxExtent), from_to(1, MaxExtent), at_least(0), at_least(MaxExtent)}

Demand2D == [width : ChildDemands, height : ChildDemands]

\* SeparatingStyle; Draw carries a grapheme cluster, of display width 1 or 2.
SeparatingStyles ==
    {[kind |-> "None", cluster_width |-> 0],
     [kind |-> "AlternatingStyle", cluster_width |-> 0],
     [kind |-> "Draw", cluster_width |-> 1],
     [kind |-> "Draw", cluster_width |-> 2]}

SpaceDemandInit ==
    /\ layout \in {"horizontal", "vertical"}
    /\ separating_style \in SeparatingStyles
    /\ widgets \in SeqsUpTo(Demand2D, MaxChildren)
    /\ total_x = exact(0)
    /\ total_y = exact(0)
    /\ n_elements = 0
    /\ result = None
    /\ sd_pc = "loop"
    /\ LayoutIdle
    /\ DrawIdle
    /\ OtherIdle

\* HorizontalLayout: total_x = total_x + demand2d.width;
horizontal_total_x(total, demand2d) == DemandAdd(total, demand2d.width)

\* Mutant: the heights are summed like the widths.
horizontal_total_y_summed(total, demand2d) == DemandAdd(total, demand2d.height)

\* HorizontalLayout: total_y = total_y.max(demand2d.height);
horizontal_total_y(total, demand2d) == DemandMax(total, demand2d.height)

\* VerticalLayout: total_x = total_x.max(demand2d.width);
vertical_total_x(total, demand2d) == DemandMax(total, demand2d.width)

\* VerticalLayout: total_y = total_y + demand2d.height;
vertical_total_y(total, demand2d) == DemandAdd(total, demand2d.height)

\* What both layouts add to the main-axis total for the separators.
separator_demand(style, n) ==
    IF style.kind = "Draw" THEN exact(n) ELSE exact(0)

\* One iteration of `for w in widgets` in HorizontalLayout::space_demand.
HorizontalSpaceDemandIteration ==
    /\ sd_pc = "loop"
    /\ layout = "horizontal"
    /\ n_elements < Len(widgets)
    /\ LET demand2d == widgets[n_elements + 1]
       IN  /\ total_x' = horizontal_total_x(total_x, demand2d)
           /\ total_y' = horizontal_total_y(total_y, demand2d)
           /\ n_elements' = n_elements + 1
    /\ UNCHANGED <<sd_pc, layout, separating_style, widgets, result>>
    /\ UNCHANGED layout_vars
    /\ UNCHANGED draw_vars
    /\ UNCHANGED other_vars

\* The rest of HorizontalLayout::space_demand: the separators and the result.
HorizontalSpaceDemandReturn ==
    /\ sd_pc = "loop"
    /\ layout = "horizontal"
    /\ n_elements = Len(widgets)
    /\ total_x' = DemandAdd(total_x, separator_demand(separating_style, n_elements))
    /\ result' = Some([width |-> total_x', height |-> total_y])
    /\ sd_pc' = "returned"
    /\ UNCHANGED <<layout, separating_style, widgets, total_y, n_elements>>
    /\ UNCHANGED layout_vars
    /\ UNCHANGED draw_vars
    /\ UNCHANGED other_vars

\* One iteration of `for w in widgets.iter()` in VerticalLayout::space_demand.
VerticalSpaceDemandIteration ==
    /\ sd_pc = "loop"
    /\ layout = "vertical"
    /\ n_elements < Len(widgets)
    /\ LET demand2d == widgets[n_elements + 1]
       IN  /\ total_x' = vertical_total_x(total_x, demand2d)
           /\ total_y' = vertical_total_y(total_y, demand2d)
           /\ n_elements' = n_elements + 1
    /\ UNCHANGED <<sd_pc, layout, separating_style, widgets, result>>
    /\ UNCHANGED layout_vars
    /\ UNCHANGED draw_vars
    /\ UNCHANGED other_vars

\* The rest of VerticalLayout::space_demand: the separators and the result.
VerticalSpaceDemandReturn ==
    /\ sd_pc = "loop"
    /\ layout = "vertical"
    /\ n_elements = Len(widgets)
    /\ total_y' = DemandAdd(total_y, separator_demand(separating_style, n_elements))
    /\ result' = Some([width |-> total_x, height |-> total_y'])
    /\ sd_pc' = "returned"
    /\ UNCHANGED <<layout, separating_style, widgets, total_x, n_elements>>
    /\ UNCHANGED layout_vars
    /\ UNCHANGED draw_vars
    /\ UNCHANGED other_vars

SpaceDemandNext ==
    \/ HorizontalSpaceDemandIteration
    \/ HorizontalSpaceDemandReturn
    \/ VerticalSpaceDemandIteration
    \/ VerticalSpaceDemandReturn

SpecSpaceDemand == SpaceDemandInit /\ [][SpaceDemandNext]_vars

\* --------------------------------------------- properties of space_demand
\* The main-axis and cross-axis demands of the widgets, for the layout at hand.
MainDemands ==
    [k \in 1..Len(widgets) |->
        IF layout = "horizontal" THEN widgets[k].width ELSE widgets[k].height]

CrossDemands ==
    [k \in 1..Len(widgets) |->
        IF layout = "horizontal" THEN widgets[k].height ELSE widgets[k].width]

MainOf(demand2d) == IF layout = "horizontal" THEN demand2d.width ELSE demand2d.height

CrossOf(demand2d) == IF layout = "horizontal" THEN demand2d.height ELSE demand2d.width

RECURSIVE SumOfMins(_)
SumOfMins(ds) == IF ds = <<>> THEN 0 ELSE ds[1].min + SumOfMins(Tail(ds))

RECURSIVE SumOfMaxs(_)
SumOfMaxs(ds) == IF ds = <<>> THEN 0 ELSE ds[1].max[1] + SumOfMaxs(Tail(ds))

AnyUnbounded(ds) == \E k \in 1..Len(ds) : ds[k].max = None

\* The largest of a set of numbers, 0 for the empty set (the start exact(0)).
Largest(S) == IF S = {} THEN 0 ELSE CHOOSE m \in S : \A x \in S : x <= m

\* The Demand sum of a list of demands, starting from exact(0).
TotalDemand(ds) ==
    [min |-> SumOfMins(ds),
     max |-> IF AnyUnbounded(ds) THEN None ELSE Some(SumOfMaxs(ds))]

\* The pairwise Demand maximum of a list of demands, starting from exact(0).
LargestDemand(ds) ==
    [min |-> Largest({ds[k].min : k \in 1..Len(ds)}),
     max |-> IF AnyUnbounded(ds) THEN None
             ELSE Some(Largest({ds[k].max[1] : k \in 1..Len(ds)}))]

\* C9: with SeparatingStyle::None the main-axis demand returned is the Demand sum
\* of the widgets' main-axis demands and the cross-axis demand is their Demand
\* maximum (main axis: width for HorizontalLayout, height for VerticalLayout).
C9_SumAndMax ==
    (sd_pc = "returned" /\ separating_style.kind = "None") =>
        /\ MainOf(result[1]) = TotalDemand(MainDemands)
        /\ CrossOf(result[1]) = LargestDemand(CrossDemands)

\* Both layouts have aggregated two widgets whose sums and maximums differ on
\* either axis, one of them unbounded.
C9_Witness ==
    /\ sd_pc = "returned"
    /\ separating_style.kind = "None"
    /\ Len(widgets) = 2
    /\ TotalDemand(MainDemands) # LargestDemand(MainDemands)
    /\ TotalDemand(CrossDemands) # LargestDemand(CrossDemands)
    /\ AnyUnbounded(MainDemands)
    /\ ~AnyUnbounded(CrossDemands)

\* C10: with the style Draw the main-axis total grows by exactly count - 1
\* units (nothing for a list without widgets), and by nothing with the styles
\* None and AlternatingStyle.
C10_SeparatorUnits ==
    sd_pc = "returned" =>
        MainOf(result[1]) =
            DemandAdd(TotalDemand(MainDemands),
                      IF separating_style.kind = "Draw"
                      THEN exact(Max2(0, Len(widgets) - 1))
                      ELSE exact(0))

\* ---------------------------------------------------------- SeparatingStyle
\* SeparatingStyle::width: Draw(cluster) => cluster.width()
SeparatingStyle_width(style) ==
    IF style.kind = "Draw" THEN style.cluster_width ELSE 0

\* SeparatingStyle::height: Draw(_) => 1
SeparatingStyle_height(style) ==
    IF style.kind = "Draw" THEN 1 ELSE 0

\* ------------------------------------------------------------------ Window
\* A window is a rectangle of the screen.
Window(x, y, w, h) == [x |-> x, y |-> y, width |-> w, height |-> h]

get_width(w) == w.width

get_height(w) == w.height

\* The cells of a window, as <<column, row>>.
CellsOf(w) ==
    {<<c, r>> : c \in w.x..(w.x + w.width - 1), r \in w.y..(w.y + w.height - 1)}

\* Window::split_h(p): the columns before p and the columns from p on; an
\* error (None here) when p is beyond the width.
split_h(w, p) ==
    IF p > w.width
    THEN None
    ELSE Some(<<[w EXCEPT !.width = p],
                [w EXCEPT !.x = w.x + p, !.width = w.width - p]>>)

\* Window::split_v(p): the rows before p and the rows from p on.
split_v(w, p) ==
    IF p > w.height
    THEN None
    ELSE Some(<<[w EXCEPT !.height = p],
                [w EXCEPT !.y = w.y + p, !.height = w.height - p]>>)

\* Window::fill(c): every cell of the window shows c.
fill(content, w, c) ==
    [p \in DOMAIN content |-> IF p \in CellsOf(w) THEN c ELSE content[p]]

\* Window::clear(): every cell of the window is blank.
clear(content, w) == fill(content, w, " ")

\* -------------------------------------------------------------------- draw
\* Most widgets handed to draw.
MaxDrawn == 3

\* Largest main-axis extent of the window handed to draw.
MaxWindow == 6

\* Cross-axis extent of the window handed to draw.
CrossExtent == 2

\* The fill_char of the k-th FakeWidget, "1", "2", ... as in the tests.
fill_char(k) == <<"1", "2", "3", "4", "5", "6", "7", "8", "9">>[k]

\* The demands the drawn widgets report along the layout's axis and across it.
DrawnDemand2D(l) ==
    LET along == {exact(1), exact(MaxExtent), at_least(0)}
        across == {exact(1), at_least(0)}
    IN  IF l = "horizontal"
        THEN [width : along, height : across]
        ELSE [width : across, height : along]

\* Mutant: the horizontal layout splits off rows.
horizontal_split_rows(w, p) == split_v(w, p)

\* HorizontalLayout::draw: |w, p| w.split_h(p).expect("valid split pos")
horizontal_split(w, p) == split_h(w, p)

\* Mutant: the vertical layout splits off columns.
vertical_split_columns(w, p) == split_h(w, p)

\* VerticalLayout::draw: |w, p| w.split_v(p).expect("valid split pos")
vertical_split(w, p) == split_v(w, p)

\* The closures HorizontalLayout::draw and VerticalLayout::draw hand to
\* draw_linearly.
split(l, w, p) == IF l = "horizontal" THEN horizontal_split(w, p) ELSE vertical_split(w, p)

window_length(l, w) == IF l = "horizontal" THEN get_width(w) ELSE get_height(w)

separator_length_of(l, style) ==
    IF l = "horizontal" THEN SeparatingStyle_width(style) ELSE SeparatingStyle_height(style)

demand_dimension(l, d) == IF l = "horizontal" THEN d.width ELSE d.height

\* A caller that takes the layout's space_demand and then draws the same
\* widgets into a window.
DrawInit ==
    /\ layout \in {"horizontal", "vertical"}
    /\ separating_style \in SeparatingStyles
    /\ widgets \in SeqsUpTo(DrawnDemand2D(layout), MaxDrawn)
    /\ total_x = exact(0)
    /\ total_y = exact(0)
    /\ n_elements = 0
    /\ result = None
    /\ sd_pc = "loop"
    /\ LayoutIdle
    /\ OtherIdle
    /\ \E length \in 0..MaxWindow :
        window = IF layout = "horizontal"
                 THEN Window(0, 0, length, CrossExtent)
                 ELSE Window(0, 0, CrossExtent, length)
    /\ draw_pc = "call"
    /\ separator_length = 0
    /\ rest_window = window
    /\ child = 1
    /\ regions = <<>>
    /\ cells = [p \in CellsOf(window) |-> "."]
    /\ draw_panic = ""

\* draw_linearly up to the call of layout_linearly.
DrawCall ==
    /\ draw_pc = "call"
    /\ sd_pc = "returned"
    /\ separator_length' = separator_length_of(layout, separating_style)
    /\ demands' = [k \in 1..Len(widgets) |-> demand_dimension(layout, widgets[k])]
    /\ space' = window_length(layout, window)
    /\ separator_width' = separator_length'
    /\ available_space' = space'
    /\ assigned_spaces' = new_assigned_spaces(Len(demands'))
    /\ unfinished' = <<>>
    /\ i' = 1
    /\ separators_deducted' = 0
    /\ iterations' = 0
    /\ pc' = "min_pass"
    /\ panic' = ""
    /\ draw_pc' = "layout"
    /\ UNCHANGED <<window, rest_window, child, regions, cells, draw_panic>>
    /\ UNCHANGED demand_vars
    /\ UNCHANGED other_vars

DrawPanics(message) ==
    /\ draw_pc' = "panicked"
    /\ draw_panic' = message

\* layout_linearly is back: the debug_assert and `let mut rest_window = window`.
DrawLoopEnter ==
    /\ draw_pc = "layout"
    /\ pc \in {"returned", "panicked"}
    /\ IF pc = "panicked"
       THEN DrawPanics(panic) /\ UNCHANGED rest_window
       ELSE IF Len(widgets) # Len(assigned_spaces)
            THEN DrawPanics("widgets and spaces len mismatch") /\ UNCHANGED rest_window
            ELSE /\ rest_window' = window
                 /\ draw_pc' = "loop"
                 /\ UNCHANGED draw_panic
    /\ UNCHANGED <<window, separator_length, child, regions, cells>>
    /\ UNCHANGED <<layout_vars, demand_vars>>
    /\ UNCHANGED other_vars

\* One iteration of the `while let` loop: the child's window, and the
\* separator's if one follows.
DrawIteration ==
    /\ draw_pc = "loop"
    /\ child <= Len(widgets)
    /\ LET pos == assigned_spaces[child]
           head == split(layout, rest_window, pos)
       IN  IF head = None
           THEN /\ DrawPanics("valid split pos")
                /\ UNCHANGED <<rest_window, child, regions, cells>>
           ELSE LET w == head[1][1]
                    r == head[1][2]
                    modified == (child - 1) % 2 = 1
                                /\ separating_style.kind = "AlternatingStyle"
                    drawn == fill(clear(cells, w), w, fill_char(child))
                    region == [widget |-> child, window |-> w, modified |-> modified]
                    follows == /\ child < Len(widgets)
                               /\ separating_style.kind = "Draw"
                               /\ window_length(layout, r) > 0
                    sep == split(layout, r, separator_length)
                IN  IF ~follows
                    THEN /\ rest_window' = r
                         /\ regions' = Append(regions, region)
                         /\ cells' = drawn
                         /\ child' = child + 1
                         /\ UNCHANGED <<draw_pc, draw_panic>>
                    ELSE IF sep = None
                    THEN /\ DrawPanics("valid split pos")
                         /\ rest_window' = r
                         /\ regions' = Append(regions, region)
                         /\ cells' = drawn
                         /\ UNCHANGED child
                    ELSE /\ rest_window' = sep[1][2]
                         /\ regions' = regions \o
                                <<region,
                                  [widget |-> 0, window |-> sep[1][1], modified |-> FALSE]>>
                         /\ cells' = fill(drawn, sep[1][1], "|")
                         /\ child' = child + 1
                         /\ UNCHANGED <<draw_pc, draw_panic>>
    /\ UNCHANGED <<window, separator_length>>
    /\ UNCHANGED <<layout_vars, demand_vars>>
    /\ UNCHANGED other_vars

\* The iterator is exhausted: draw_linearly returns.
DrawReturn ==
    /\ draw_pc = "loop"
    /\ child > Len(widgets)
    /\ draw_pc' = "done"
    /\ UNCHANGED <<window, separator_length, rest_window, child, regions, cells, draw_panic>>
    /\ UNCHANGED <<layout_vars, demand_vars>>
    /\ UNCHANGED other_vars

DrawNext ==
    \/ SpaceDemandNext
    \/ DrawCall
    \/ LayoutNext
    \/ DrawLoopEnter
    \/ DrawIteration
    \/ DrawReturn

SpecDraw == DrawInit /\ [][DrawNext]_vars

\* ------------------------------------------------------ properties of draw
\* draw_linearly has taken the separator's length and called layout_linearly.
DrawCalled == draw_pc \in {"layout", "loop", "done", "panicked"}

\* draw_linearly has the allocation and is handing out windows, or is over.
Drawing == draw_pc \in {"loop", "done", "panicked"}

main_start(w) == IF layout = "horizontal" THEN w.x ELSE w.y

main_length(w) == window_length(layout, w)

cross_start(w) == IF layout = "horizontal" THEN w.y ELSE w.x

cross_length(w) == IF layout = "horizontal" THEN w.height ELSE w.width

\* The cell at offset m along the layout's axis and offset c across it.
CellAt(m, c) == IF layout = "horizontal" THEN <<m, c>> ELSE <<c, m>>

\* Sum of the main-axis lengths of the first q windows handed out.
RECURSIVE LengthsBefore(_)
LengthsBefore(q) ==
    IF q = 0 THEN 0 ELSE main_length(regions[q].window) + LengthsBefore(q - 1)

SeparatorsBefore(q) == Cardinality({p \in 1..(q - 1) : regions[p].widget = 0})

\* What a window handed out shows: the child's character or the separator.
Shown(region) == IF region.widget = 0 THEN "|" ELSE fill_char(region.widget)

\* C11: a drawn separator is one unit long along the layout's axis, whatever its
\* cluster; the other styles have no extent.
C11_OneUnitAlongMainAxis ==
    DrawCalled =>
        separator_length = (IF separating_style.kind = "Draw" THEN 1 ELSE 0)

\* C12: no split of draw aborts: neither a child's nor a separator's offset is
\* beyond the extent of the window that is split.
C12_ValidSplitPos == draw_panic # "valid split pos"

\* C13: the windows handed out are disjoint and follow each other from the
\* origin in child order; child k starts after the extents of the children and
\* the separators before it and is output[k] long; every cell shows what its
\* window was filled with, and the cells in no window show what they showed.
C13_RegionsContiguous ==
    Drawing =>
        /\ \A q \in 1..Len(regions) :
            LET region == regions[q]
            IN  /\ main_start(region.window) = LengthsBefore(q - 1)
                /\ IF region.widget = 0
                   THEN main_length(region.window) = separator_length
                   ELSE /\ main_length(region.window) = assigned_spaces[region.widget]
                        /\ main_start(region.window) =
                               SumSeq(SubSeq(assigned_spaces, 1, region.widget - 1))
                               + SeparatorsBefore(q) * separator_length
        /\ \A p, q \in 1..Len(regions) :
            p < q =>
                /\ CellsOf(regions[p].window) \cap CellsOf(regions[q].window) = {}
                /\ (regions[p].widget # 0 /\ regions[q].widget # 0) =>
                       regions[p].widget < regions[q].widget
        /\ \A cell \in DOMAIN cells :
            IF \E q \in 1..Len(regions) : cell \in CellsOf(regions[q].window)
            THEN \A q \in 1..Len(regions) :
                    cell \in CellsOf(regions[q].window) => cells[cell] = Shown(regions[q])
            ELSE cells[cell] = "."
        /\ (draw_pc = "done" /\ separating_style.kind # "Draw") =>
               \A cell \in DOMAIN cells :
                   LET m == IF layout = "horizontal" THEN cell[1] ELSE cell[2]
                   IN  m >= SumSeq(assigned_spaces) => cells[cell] = "."
        /\ (/\ draw_pc = "done"
            /\ layout = "horizontal"
            /\ separating_style.kind = "None"
            /\ window.width = 4
            /\ demands = <<exact(2), exact(2)>>) =>
               \A r \in 0..(window.height - 1) :
                   /\ cells[<<0, r>>] = "1"
                   /\ cells[<<1, r>>] = "1"
                   /\ cells[<<2, r>>] = "2"
                   /\ cells[<<3, r>>] = "2"

\* Three children and the two separators between them have been drawn, and
\* the window is longer than all of them together.
C13_Witness ==
    /\ draw_pc = "done"
    /\ Len(widgets) = 3
    /\ Len(regions) = 5
    /\ separator_length > 0
    /\ \A k \in 1..3 : assigned_spaces[k] > 0
    /\ LengthsBefore(5) < main_length(window)
    /\ cells[CellAt(main_length(window) - 1, 0)] = "."

\* C18: in an iteration of the loop a separator's window is split off and
\* filled after the child exactly when the style is Draw, another child follows
\* and the rest of the window is not empty.
C18_SeparatorIff ==
    [][(draw_pc = "loop" /\ child <= Len(widgets)) =>
        LET remaining == main_length(rest_window) - assigned_spaces[child]
            filled == /\ Len(regions') = Len(regions) + 2
                      /\ regions'[Len(regions')].widget = 0
                      /\ \A cell \in CellsOf(regions'[Len(regions')].window) :
                             cells'[cell] = "|"
        IN  filled <=> (/\ separating_style.kind = "Draw"
                        /\ child < Len(widgets)
                        /\ remaining > 0)]_vars

\* C19: the window of every child spans the parent window across the layout's
\* axis, and the child fills all of it.
C19_FullCrossExtent ==
    Drawing =>
        \A q \in 1..Len(regions) :
            regions[q].widget # 0 =>
                /\ cross_start(regions[q].window) = cross_start(window)
                /\ cross_length(regions[q].window) = cross_length(window)
                /\ \A cell \in CellsOf(regions[q].window) :
                       cells[cell] = fill_char(regions[q].widget)

\* A child that asks for exactly one unit across the axis has filled a window
\* that is wider across the axis.
C19_Witness ==
    /\ draw_pc = "done"
    /\ \E q \in 1..Len(regions) :
        /\ regions[q].widget # 0
        /\ CrossOf(widgets[regions[q].widget]) = exact(1)
        /\ cross_length(regions[q].window) > 1
        /\ main_length(regions[q].window) > 0
        /\ \A c \in 0..(cross_length(window) - 1) :
               cells[CellAt(main_start(regions[q].window), c)] =
                   fill_char(regions[q].widget)

\* C20: in a window at least as long as the minimum of the layout's own
\* space_demand, every child is allocated at least its minimum.
C20_OwnDemandSufficient ==
    (/\ DrawCalled
     /\ pc = "returned"
     /\ main_length(window) >= demand_dimension(layout, result[1]).min) =>
        \A k \in 1..Len(demands) : assigned_spaces[k] >= demands[k].min

\* --------------------------------------------------------- FileLineStorage
\* Most bytes in the file.
MaxFileLen == 4

\* Largest index asked of view_line.
MaxIndex == 3

\* The bytes of a file: a letter, the newline, and a byte that is not UTF-8.
Bytes == {"a", "\n", "0xFF"}

\* BufRead::read_until(b'\n', buf) at offset pos: the bytes it appends to buf,
\* up to and including the next newline or up to the end of the file.
RECURSIVE read_until(_, _)
read_until(content, pos) ==
    IF pos >= Len(content)
    THEN <<>>
    ELSE IF content[pos + 1] = "\n"
         THEN <<"\n">>
         ELSE <<content[pos + 1]>> \o read_until(content, pos + 1)

\* String::from_utf8_lossy: a byte that is not UTF-8 becomes U+FFFD.
from_utf8_lossy(buffer) ==
    [k \in 1..Len(buffer) |-> IF buffer[k] = "0xFF" THEN "U+FFFD" ELSE buffer[k]]

\* if string.as_str().bytes().last().unwrap_or(b'_') == b'\n' { string.pop(); }
pop_newline(string) ==
    IF string # <<>> /\ string[Len(string)] = "\n"
    THEN SubSeq(string, 1, Len(string) - 1)
    ELSE string

\* FileLineStorage::new on a file of any content.
FileInit ==
    /\ \E content \in SeqsUpTo(Bytes, MaxFileLen) :
        file_line_storage = [content |-> content, line_seek_positions |-> <<0>>]
    /\ get_line = [pc |-> "ready", index |-> 0, buffer |-> <<>>, result |-> None]
    /\ LayoutIdle
    /\ SpaceDemandIdle
    /\ DrawIdle
    /\ ViewIdle
    /\ EditIdle

\* view_line(pos) calls get_line(index): `let mut buffer = Vec::new();`
ViewLineCall ==
    /\ get_line.pc \in {"ready", "returned"}
    /\ \E index \in 0..MaxIndex :
        get_line' = [pc |-> "loop", index |-> index, buffer |-> <<>>, result |-> None]
    /\ UNCHANGED file_line_storage
    /\ UNCHANGED <<layout_vars, demand_vars, draw_vars, view_vars, edit_vars>>

\* One iteration of the `loop` of get_line.
GetLineIteration ==
    /\ get_line.pc = "loop"
    /\ LET line_seek_positions == file_line_storage.line_seek_positions
           index == get_line.index
           current_max_index ==
               line_seek_positions[Min2(index, Len(line_seek_positions) - 1) + 1]
           read == read_until(file_line_storage.content, current_max_index)
           n_bytes == Len(read)
           buffer == get_line.buffer \o read
       IN  IF n_bytes = 0
           THEN /\ get_line' = [get_line EXCEPT !.pc = "returned", !.buffer = buffer,
                                                !.result = None]
                /\ UNCHANGED file_line_storage
           ELSE IF index < Len(line_seek_positions)
           THEN /\ get_line' = [get_line EXCEPT
                                    !.pc = "returned", !.buffer = buffer,
                                    !.result = Some(pop_newline(from_utf8_lossy(buffer)))]
                /\ UNCHANGED file_line_storage
           ELSE /\ file_line_storage' =
                       [file_line_storage EXCEPT
                            !.line_seek_positions =
                                Append(line_seek_positions, current_max_index + n_bytes)]
                /\ get_line' = [get_line EXCEPT !.buffer = buffer]
    /\ UNCHANGED <<layout_vars, demand_vars, draw_vars, view_vars, edit_vars>>

FileNext ==
    \/ ViewLineCall
    \/ GetLineIteration

SpecFile == FileInit /\ [][FileNext]_vars

\* ------------------------------------------ properties of FileLineStorage
\* The offset at which line k of the file starts (k from 0): after the k-th
\* newline.
LineStart(content, k) ==
    IF k = 0
    THEN 0
    ELSE LET newlines == {p \in 1..Len(content) : content[p] = "\n"}
             upto(p) == Cardinality({q \in newlines : q <= p})
         IN  IF Cardinality(newlines) < k
             THEN Len(content)
             ELSE CHOOSE p \in newlines : upto(p) = k

HasLine(content, k) == LineStart(content, k) < Len(content)

\* The bytes of line k, without its newline.
LineBytes(content, k) ==
    LET from == LineStart(content, k)
        stops == {p \in (from + 1)..Len(content) : content[p] = "\n"}
        to == IF stops = {} THEN Len(content)
              ELSE (CHOOSE p \in stops : \A q \in stops : p <= q) - 1
    IN  SubSeq(content, from + 1, to)

\* C21: whatever was asked before, view_line(index) returns the text of line
\* index of the file without its newline, or None when the file has no such
\* line.
C21_ViewLineIsTheLine ==
    get_line.pc = "returned" =>
        get_line.result =
            (IF HasLine(file_line_storage.content, get_line.index)
             THEN Some(from_utf8_lossy(LineBytes(file_line_storage.content, get_line.index)))
             ELSE None)

\* ------------------------------------- LineStorage::view, LineStorageIterator
\* Most lines in the storage.
MaxLines == 3

\* The lines a storage may hold.
Lines == {"a", "b"}

\* base::ranges::Bound of a RangeArgument over line indices.
Bounds ==
    {<<"Unbound">>} \cup {<<kind, k>> : kind \in {"Inclusive", "Exclusive"}, k \in 0..MaxLines}

\* MemoryLineStorage::view_line: self.lines.get(upos).map(|s| s.clone())
memory_view_line(lines, upos) ==
    IF upos < Len(lines) THEN Some(lines[upos + 1]) ELSE None

\* let start: LineIndex = match range.start() { ... }  (always inclusive)
view_start(bound) ==
    IF bound[1] = "Unbound" THEN 0
    ELSE IF bound[1] = "Inclusive" THEN bound[2]
    ELSE bound[2] + 1

\* The bounded arms of `let end: LineIndex = match range.end()` (always
\* exclusive).
view_end(bound) ==
    IF bound[1] = "Inclusive" THEN bound[2] + 1 ELSE bound[2]

\* next: let item_index = self.range.start;
front_index(range) == range.start

\* next_back: let item_index = self.range.end - 1;
back_index(range) == range.end - 1

\* MemoryLineStorage::with_lines(lines), nothing viewed yet.
ViewInit ==
    /\ memory_line_storage \in [lines : SeqsUpTo(Lines, MaxLines)]
    /\ line_storage_iterator =
           [pc |-> "ready", range_argument |-> [start |-> <<"Unbound">>, end |-> <<"Unbound">>],
            start |-> 0, end |-> 0, i |-> 0, range |-> [start |-> 0, end |-> 0],
            yielded |-> <<>>, nexts |-> 0, next_backs |-> 0]
    /\ LayoutIdle
    /\ SpaceDemandIdle
    /\ DrawIdle
    /\ FileIdle
    /\ EditIdle

\* view(range) up to the loop that looks for the end, or up to the iterator
\* when the end is bounded.
ViewCall ==
    /\ line_storage_iterator.pc = "ready"
    /\ \E from \in Bounds, to \in Bounds :
        LET start == view_start(from)
        IN  line_storage_iterator' =
                IF to[1] = "Unbound"
                THEN [line_storage_iterator EXCEPT
                          !.pc = "end_loop",
                          !.range_argument = [start |-> from, end |-> to],
                          !.start = start, !.end = start, !.i = start]
                ELSE [line_storage_iterator EXCEPT
                          !.pc = "iterating",
                          !.range_argument = [start |-> from, end |-> to],
                          !.start = start, !.end = view_end(to),
                          !.range = [start |-> start, end |-> view_end(to)]]
    /\ UNCHANGED memory_line_storage
    /\ UNCHANGED <<layout_vars, demand_vars, draw_vars, file_vars, edit_vars>>

\* One iteration of `for i in u_start..` and, at its break, the iterator.
ViewEndIteration ==
    /\ line_storage_iterator.pc = "end_loop"
    /\ LET end == line_storage_iterator.end + 1
           index == line_storage_iterator.i
       IN  line_storage_iterator' =
               IF memory_view_line(memory_line_storage.lines, index) = None
               THEN [line_storage_iterator EXCEPT
                         !.pc = "iterating", !.end = end,
                         !.range = [start |-> line_storage_iterator.start, end |-> end]]
               ELSE [line_storage_iterator EXCEPT !.end = end, !.i = index + 1]
    /\ UNCHANGED memory_line_storage
    /\ UNCHANGED <<layout_vars, demand_vars, draw_vars, file_vars, edit_vars>>

\* What next and next_back return for item_index, and the consumer who stops
\* at the first None.
Yield(item_index) ==
    LET line == memory_view_line(memory_line_storage.lines, item_index)
    IN  IF line = None THEN None ELSE Some(<<item_index, line[1]>>)

\* LineStorageIterator::next, called by a consumer that has seen no None yet.
IteratorNext ==
    /\ line_storage_iterator.pc = "iterating"
    /\ LET range == line_storage_iterator.range
           item == IF range.start < range.end THEN Yield(front_index(range)) ELSE None
       IN  line_storage_iterator' =
               [line_storage_iterator EXCEPT
                    !.range = IF range.start < range.end
                              THEN [range EXCEPT !.start = range.start + 1]
                              ELSE range,
                    !.yielded = line_storage_iterator.yielded \o item,
                    !.nexts = line_storage_iterator.nexts + 1,
                    !.pc = IF item = None THEN "exhausted" ELSE "iterating"]
    /\ UNCHANGED memory_line_storage
    /\ UNCHANGED <<layout_vars, demand_vars, draw_vars, file_vars, edit_vars>>

\* LineStorageIterator::next_back, called by a consumer that has seen no None
\* yet.
IteratorNextBack ==
    /\ line_storage_iterator.pc = "iterating"
    /\ LET range == line_storage_iterator.range
           item == IF range.start < range.end THEN Yield(back_index(range)) ELSE None
       IN  line_storage_iterator' =
               [line_storage_iterator EXCEPT
                    !.range = IF range.start < range.end
                              THEN [range EXCEPT !.end = range.end - 1]
                              ELSE range,
                    !.yielded = line_storage_iterator.yielded \o item,
                    !.next_backs = line_storage_iterator.next_backs + 1,
                    !.pc = IF item = None THEN "exhausted" ELSE "iterating"]
    /\ UNCHANGED memory_line_storage
    /\ UNCHANGED <<layout_vars, demand_vars, draw_vars, file_vars, edit_vars>>

ViewNext ==
    \/ ViewCall
    \/ ViewEndIteration
    \/ IteratorNext
    \/ IteratorNextBack

SpecView == ViewInit /\ [][ViewNext]_vars

\* ------------------------------------------- properties of LineStorage::view
\* The stored lines with index from..(n - 1), each with its index, ascending.
Ascending(lines, from) ==
    [k \in 1..(Len(lines) - from) |-> <<from + k - 1, lines[from + k]>>]

\* The same, descending from line n - 1.
Descending(lines, from) ==
    [k \in 1..(Len(lines) - from) |-> <<Len(lines) - k, lines[Len(lines) - k + 1]>>]

\* The iterator of a view with an unbounded end and a start within the storage
\* has been consumed up to its first None.
ViewedToTheEnd ==
    /\ line_storage_iterator.pc = "exhausted"
    /\ line_storage_iterator.range_argument.end = <<"Unbound">>
    /\ line_storage_iterator.start <= Len(memory_line_storage.lines)

\* C22: a view with an unbounded end yields the lines start..n-1 with their
\* indices, ascending when consumed with next and descending from line n - 1
\* when consumed with next_back.
C22_ViewYieldsStoredLines ==
    ViewedToTheEnd =>
        /\ line_storage_iterator.next_backs = 0 =>
               line_storage_iterator.yielded =
                   Ascending(memory_line_storage.lines, line_storage_iterator.start)
        /\ line_storage_iterator.nexts = 0 =>
               line_storage_iterator.yielded =
                   Descending(memory_line_storage.lines, line_storage_iterator.start)

\* ----------------------------------------------------------------- LineEdit
\* Most characters in the text of the LineEdit.
MaxTextLen == 3

\* The characters of a text: a letter, the combining acute accent U+0301, and
\* the newline.
Chars == {"a", "U+0301", "\n"}

\* str::len: the length in bytes of the UTF-8 encoding.
len(text) ==
    LET RECURSIVE bytes(_)
        bytes(k) == IF k = 0 THEN 0
                    ELSE (IF text[k] = "U+0301" THEN 2 ELSE 1) + bytes(k - 1)
    IN  bytes(Len(text))

\* How many combining marks follow each other in text from position k on.
RECURSIVE marks_from(_, _)
marks_from(text, k) ==
    IF k <= Len(text) /\ text[k] = "U+0301" THEN 1 + marks_from(text, k + 1) ELSE 0

\* UnicodeSegmentation::graphemes(true): extended grapheme clusters. A
\* combining mark extends the cluster before it, except at the start of the
\* text and after a newline.
RECURSIVE graphemes(_)
graphemes(text) ==
    IF text = <<>>
    THEN <<>>
    ELSE LET n == IF text[1] = "\n" THEN 1 ELSE 1 + marks_from(text, 2)
         IN  <<SubSeq(text, 1, n)>> \o graphemes(SubSeq(text, n + 1, Len(text)))

\* count_grapheme_clusters(text)
count_grapheme_clusters(text) == Len(graphemes(text))

\* Iterator::collect::<String>() of string slices.
RECURSIVE collect(_)
collect(strs) == IF strs = <<>> THEN <<>> ELSE strs[1] \o collect(Tail(strs))

\* Iterator::take(n) and Iterator::skip(n)
take(items, n) == SubSeq(items, 1, Min2(n, Len(items)))

skip(items, n) == SubSeq(items, n + 1, Len(items))

\* LineEdit::insert: the graphemes before the cursor, the text, the rest.
insert(text, cursor_pos, inserted) ==
    collect(take(graphemes(text), cursor_pos) \o <<inserted>>
            \o skip(graphemes(text), cursor_pos))

\* LineEdit::move_cursor_right, as [cursor_pos, result].
move_cursor_right(text, cursor_pos) ==
    LET new_pos == cursor_pos + 1
    IN  IF new_pos <= count_grapheme_clusters(text)
        THEN [cursor_pos |-> new_pos, result |-> "Ok"]
        ELSE [cursor_pos |-> cursor_pos, result |-> "Err"]

\* LineEdit::move_cursor_left, as [cursor_pos, result].
move_cursor_left(cursor_pos) ==
    IF cursor_pos > 0
    THEN [cursor_pos |-> cursor_pos - 1, result |-> "Ok"]
    ELSE [cursor_pos |-> cursor_pos, result |-> "Err"]

\* LineEdit::erase_symbol_at, as [text, result].
erase_symbol_at(text, pos) ==
    IF pos < len(text)
    THEN LET clusters == graphemes(text)
             kept == {k \in 1..Len(clusters) : k - 1 # pos}
             RECURSIVE filter(_)
             filter(k) == IF k > Len(clusters) THEN <<>>
                          ELSE (IF k \in kept THEN <<clusters[k]>> ELSE <<>>)
                               \o filter(k + 1)
         IN  [text |-> collect(filter(1)), result |-> "Ok"]
    ELSE [text |-> text, result |-> "Err"]

\* LineEdit::new()
EditInit ==
    /\ line_edit = [text |-> <<>>, cursor_pos |-> 0]
    /\ operation_result = [operation |-> "new", result |-> "()", before |-> line_edit]
    /\ LayoutIdle
    /\ SpaceDemandIdle
    /\ DrawIdle
    /\ FileIdle
    /\ ViewIdle

\* What every operation leaves alone.
EditFrame == UNCHANGED <<layout_vars, demand_vars, draw_vars, file_vars, view_vars>>

Returns(operation, returned) ==
    operation_result' = [operation |-> operation, result |-> returned, before |-> line_edit]

\* LineEdit::set(text)
Set ==
    /\ \E text \in SeqsUpTo(Chars, MaxTextLen) :
        line_edit' = [text |-> text, cursor_pos |-> count_grapheme_clusters(text)]
    /\ Returns("set", "()")
    /\ EditFrame

\* LineEdit::insert(text)
Insert ==
    /\ \E text \in SeqsUpTo(Chars, MaxTextLen - Len(line_edit.text)) :
        line_edit' = [line_edit EXCEPT
                          !.text = insert(line_edit.text, line_edit.cursor_pos, text)]
    /\ Returns("insert", "()")
    /\ EditFrame

\* Writable::write(c)
Write ==
    /\ \E c \in Chars :
        IF c = "\n"
        THEN /\ UNCHANGED line_edit
             /\ Returns("write", "Err")
        ELSE /\ Len(line_edit.text) < MaxTextLen
             /\ LET text == insert(line_edit.text, line_edit.cursor_pos, <<c>>)
                    moved == move_cursor_right(text, line_edit.cursor_pos)
                IN  /\ line_edit' = [text |-> text, cursor_pos |-> moved.cursor_pos]
                    /\ Returns("write", moved.result)
    /\ EditFrame

\* LineEdit::move_cursor_left, Navigatable::move_left
MoveCursorLeft ==
    /\ LET moved == move_cursor_left(line_edit.cursor_pos)
       IN  /\ line_edit' = [line_edit EXCEPT !.cursor_pos = moved.cursor_pos]
           /\ Returns("move_cursor_left", moved.result)
    /\ EditFrame

\* LineEdit::move_cursor_right, Navigatable::move_right
MoveCursorRight ==
    /\ LET moved == move_cursor_right(line_edit.text, line_edit.cursor_pos)
       IN  /\ line_edit' = [line_edit EXCEPT !.cursor_pos = moved.cursor_pos]
           /\ Returns("move_cursor_right", moved.result)
    /\ EditFrame

\* LineEdit::move_cursor_to_beginning_of_line, Editable::go_to_beginning_of_line
MoveCursorToBeginningOfLine ==
    /\ line_edit' = [line_edit EXCEPT !.cursor_pos = 0]
    /\ Returns("move_cursor_to_beginning_of_line", "Ok")
    /\ EditFrame

\* LineEdit::move_cursor_to_end_of_line, Editable::go_to_end_of_line
MoveCursorToEndOfLine ==
    /\ line_edit' = [line_edit EXCEPT
                         !.cursor_pos = count_grapheme_clusters(line_edit.text)]
    /\ Returns("move_cursor_to_end_of_line", "Ok")
    /\ EditFrame

\* Editable::delete_forwards
DeleteForwards ==
    /\ LET to_erase == line_edit.cursor_pos
           erased == erase_symbol_at(line_edit.text, to_erase)
       IN  /\ line_edit' = [line_edit EXCEPT !.text = erased.text]
           /\ Returns("delete_forwards", erased.result)
    /\ EditFrame

\* Editable::delete_backwards
DeleteBackwards ==
    /\ IF line_edit.cursor_pos > 0
       THEN LET to_erase == line_edit.cursor_pos - 1
                erased == erase_symbol_at(line_edit.text, to_erase)
                moved == move_cursor_left(line_edit.cursor_pos)
            IN  /\ line_edit' = [text |-> erased.text, cursor_pos |-> moved.cursor_pos]
                /\ Returns("delete_backwards", "Ok")
       ELSE /\ UNCHANGED line_edit
            /\ Returns("delete_backwards", "Err")
    /\ EditFrame

\* Editable::clear
Clear ==
    /\ IF line_edit.text = <<>>
       THEN /\ UNCHANGED line_edit
            /\ Returns("clear", "Err")
       ELSE /\ line_edit' = [text |-> <<>>, cursor_pos |-> 0]
            /\ Returns("clear", "Ok")
    /\ EditFrame

EditNext ==
    \/ Set
    \/ Insert
    \/ Write
    \/ MoveCursorLeft
    \/ MoveCursorRight
    \/ MoveCursorToBeginningOfLine
    \/ MoveCursorToEndOfLine
    \/ DeleteForwards
    \/ DeleteBackwards
    \/ Clear

SpecEdit == EditInit /\ [][EditNext]_vars

\* ---------------------------------------------------- properties of LineEdit
\* The cursor is on a grapheme cluster of the text or right behind the last.
CursorInText ==
    /\ 0 <= line_edit.cursor_pos
    /\ line_edit.cursor_pos <= count_grapheme_clusters(line_edit.text)

\* The last operation returned Err and changed neither text nor cursor, or
\* did not return Err.
ErrChangesNothing ==
    operation_result.result = "Err" => line_edit = operation_result.before

\* C23: after any sequence of operations the cursor is within the text, and an
\* operation that returns Err leaves text and cursor as they were.
C23_CursorInvariant == CursorInText /\ ErrChangesNothing

====
